---- MODULE Spec2Model ----
(***************************************************************************)
(* Model of arch/x86/cpu/tangier/pinmux.c: the Intel Tangier (Merrifield)  *)
(* pin-mode driver.  A u32 (and a 32-bit pointer) is represented by the    *)
(* signed 32-bit integer with the same bit pattern, so that 0xFFFFFFFF is  *)
(* -1, an s32 converts to u32 without change, floor division by 2^k is a   *)
(* right shift and x % 2^k is the low k bits.                              *)
(***************************************************************************)
EXTENDS Integers, Sequences, FiniteSets, TLC

VARIABLES
    region,          \* hardware: address of the pin controller's register region
    mem,             \* hardware: the 32-bit buffer-configuration registers, by address
    seed,            \* hardware: which contents the registers had before the probe
    mrfld_families,  \* the static family table (regs filled in by the probe)
    pinctrl,         \* struct mrfld_pinctrl, the device's private data
    dt,              \* the device's subnodes in the device tree, in source order
    idx,             \* number of subnodes the probe's loop has visited
    pc,              \* position of tangier_pinctrl_probe: "probe", "subnodes", "done"
    results,         \* return value of mrfld_pinctrl_cfg_pin for each visited subnode
    hw,              \* every hardware access made so far, in order
    probe_ret        \* << >>, then <<r>> once tangier_pinctrl_probe has returned r

vars == <<region, mem, seed, mrfld_families, pinctrl, dt, idx, pc, results, hw, probe_ret>>

----------------------------------------------------------------------------
(* Program constants *)

BUFCFG_OFFSET == 256
MRFLD_FAMILY_LEN == 1024
MRFLD_PINMODE_MASK == 7

NULL == 0
EINVAL == 22
ENOTSUPP == 524
EIO == 5

(* Bounds of the model *)
MaxNodes == 2       \* longest list of subnodes
MaxPin == 120       \* single-subnode device trees name every pin 0..MaxPin
MaxMode == 9        \* ... and every mode -MaxMode..MaxMode

----------------------------------------------------------------------------
(* 32-bit arithmetic on bit patterns.  AndBits works from bit 0 up; what is   *)
(* left of an operand after k shifts is 0 or -1 once only sign bits remain.  *)

RECURSIVE AndBits(_, _, _)
AndBits(a, b, n) ==
    IF n = 0 THEN (IF a < 0 /\ b < 0 THEN -1 ELSE 0)
    ELSE IF a = 0 \/ b = 0 THEN 0
    ELSE IF a = -1 THEN b
    ELSE IF b = -1 THEN a
    ELSE (a % 2) * (b % 2) + 2 * AndBits(a \div 2, b \div 2, n - 1)

And32(a, b) == AndBits(a, b, 31)
Not32(a) == -1 - a
Or32(a, b) == Not32(And32(Not32(a), Not32(b)))

\* unsigned a < b
ULess(a, b) == IF (a < 0) = (b < 0) THEN a < b ELSE b < 0

----------------------------------------------------------------------------
(* The family table *)

\* the bug of counting the pins of s..e one short
MRFLD_FAMILY_one_short(b, s, e) ==
    [family_number |-> b, pin_base |-> s, npins |-> e - s, regs |-> NULL]

MRFLD_FAMILY(b, s, e) ==
    [family_number |-> b, pin_base |-> s, npins |-> e - s + 1, regs |-> NULL]

mrfld_families_init == << MRFLD_FAMILY(3, 37, 56), MRFLD_FAMILY(7, 101, 114) >>

pin_to_bufno(f, p) == p - f.pin_base

\* the bug of leaving a family's first pin out of its range
RECURSIVE get_family_strict(_, _, _)
get_family_strict(mp, pin, i) ==
    IF i > mp.nfamilies THEN NULL
    ELSE LET family == mp.families[i] IN
         IF ULess(family.pin_base, pin)
            /\ ULess(pin, family.pin_base + family.npins)
         THEN i
         ELSE get_family_strict(mp, pin, i + 1)

mrfld_get_family_strict(mp, pin) == get_family_strict(mp, pin, 1)

\* index (1-based) of the first family of mp that contains pin, from index i on;
\* NULL when there is none
RECURSIVE get_family_from(_, _, _)
get_family_from(mp, pin, i) ==
    IF i > mp.nfamilies THEN NULL
    ELSE LET family == mp.families[i] IN
         IF ~ULess(pin, family.pin_base)
            /\ ULess(pin, family.pin_base + family.npins)
         THEN i
         ELSE get_family_from(mp, pin, i + 1)

mrfld_get_family(mp, pin) == get_family_from(mp, pin, 1)

\* the bug of indexing the registers by bytes, not by 32-bit words
get_bufcfg_byte_stride(mp, pin) ==
    LET family == mrfld_get_family(mp, pin) IN
    IF family = NULL THEN NULL
    ELSE LET f == mp.families[family]
             bufno == pin_to_bufno(f, pin)
         IN  f.regs + BUFCFG_OFFSET + bufno

mrfld_get_bufcfg(mp, pin) ==
    LET family == mrfld_get_family(mp, pin) IN
    IF family = NULL THEN NULL
    ELSE LET f == mp.families[family]
             bufno == pin_to_bufno(f, pin)
         IN  f.regs + BUFCFG_OFFSET + bufno * 4

\* the bug of giving every family the same base address
setup_families_one_base(base_addr, families) ==
    [i \in DOMAIN families |->
        [families[i] EXCEPT !.regs = base_addr + MRFLD_FAMILY_LEN]]

mrfld_setup_families(base_addr, families) ==
    [i \in DOMAIN families |->
        [families[i] EXCEPT !.regs = base_addr + families[i].family_number * MRFLD_FAMILY_LEN]]

----------------------------------------------------------------------------
(* Collaborators outside this file *)

\* the device being probed is the registered pin-configuration syscon device
syscon_get_by_driver_data == 0

\* the address of the controller's first register range
syscon_get_first_range == region

\* a device-tree integer property, or def when the node does not have it
ofnode_read_s32_default(node, propname, def) ==
    IF propname \in DOMAIN node THEN node[propname] ELSE def

\* a device-tree boolean property is true when the node has it
ofnode_read_bool(node, propname) == propname \in DOMAIN node

readl(m, addr) == m[addr]

writel(m, v, addr) == [m EXCEPT ![addr] = v]

\* IPCMSG_INDIRECT_WRITE: the SCU stores v at addr when it accepts the request
\* (status = 0) and stores nothing when it reports failure
scu_ipc_raw_command(m, v, addr, status) ==
    [ret |-> status, mem |-> IF status = 0 THEN [m EXCEPT ![addr] = v] ELSE m]

----------------------------------------------------------------------------
(* Configuration of one pin.  Each operator returns the function's return   *)
(* value together with the memory it leaves and the accesses it made.       *)

\* ret is what the access returned to the driver: the SCU's status for an
\* indirect write, the value read for readl, nothing (0) for writel
Access(op, addr, val, ret) == [op |-> op, addr |-> addr, val |-> val, ret |-> ret]

mrfld_pinconfig_get_bufcfg(pin) ==
    LET ret == syscon_get_by_driver_data IN
    IF ret # 0 THEN [ret |-> ret, bufcfg |-> NULL]
    ELSE LET addr == mrfld_get_bufcfg(pinctrl, pin) IN
         IF addr = NULL THEN [ret |-> -EINVAL, bufcfg |-> NULL]
         ELSE [ret |-> 0, bufcfg |-> addr]

\* the bug of not clearing the field before setting it
read_and_update_no_clear(m, bufcfg, mask, bits) ==
    LET value == readl(m, bufcfg) IN
    Or32(value, And32(bits, mask))

mrfld_pinconfig_read_and_update(m, bufcfg, mask, bits) ==
    LET value == readl(m, bufcfg) IN
    Or32(And32(value, Not32(mask)), And32(bits, mask))

mrfld_pinconfig_protected(m, pin, mask, bits, status) ==
    LET g == mrfld_pinconfig_get_bufcfg(pin) IN
    IF g.ret # 0 THEN [ret |-> g.ret, mem |-> m, acc |-> << >>]
    ELSE LET v == mrfld_pinconfig_read_and_update(m, g.bufcfg, mask, bits)
             r == scu_ipc_raw_command(m, v, g.bufcfg, status)
         IN  [ret |-> r.ret, mem |-> r.mem,
              acc |-> << Access("readl", g.bufcfg, 0, readl(m, g.bufcfg)),
                         Access("scu_ipc", g.bufcfg, v, r.ret) >>]

\* the bug of storing the mode bits alone instead of the updated value
pinconfig_store_bits(m, pin, mask, bits) ==
    LET g == mrfld_pinconfig_get_bufcfg(pin) IN
    IF g.ret # 0 THEN [ret |-> g.ret, mem |-> m, acc |-> << >>]
    ELSE LET v == And32(bits, mask) IN
         [ret |-> 0, mem |-> writel(m, v, g.bufcfg),
          acc |-> << Access("readl", g.bufcfg, 0, readl(m, g.bufcfg)),
                     Access("writel", g.bufcfg, v, 0) >>]

mrfld_pinconfig(m, pin, mask, bits) ==
    LET g == mrfld_pinconfig_get_bufcfg(pin) IN
    IF g.ret # 0 THEN [ret |-> g.ret, mem |-> m, acc |-> << >>]
    ELSE LET v == mrfld_pinconfig_read_and_update(m, g.bufcfg, mask, bits) IN
         [ret |-> 0, mem |-> writel(m, v, g.bufcfg),
          acc |-> << Access("readl", g.bufcfg, 0, readl(m, g.bufcfg)),
                     Access("writel", g.bufcfg, v, 0) >>]

\* the bug of taking the direct path whatever "protected" says
cfg_pin_always_direct(m, pin_node, status) ==
    LET pad_offset == ofnode_read_s32_default(pin_node, "pad-offset", -1)
        mode == ofnode_read_s32_default(pin_node, "mode-func", -1)
        mask == MRFLD_PINMODE_MASK
    IN  IF pad_offset = -1 THEN [ret |-> -EINVAL, mem |-> m, acc |-> << >>]
        ELSE IF mode = -1 THEN [ret |-> -EINVAL, mem |-> m, acc |-> << >>]
        ELSE IF And32(mode, Not32(mask)) # 0
             THEN [ret |-> -ENOTSUPP, mem |-> m, acc |-> << >>]
        ELSE mrfld_pinconfig(m, pad_offset, mask, mode)

\* the bug of not checking that "mode-func" is there
cfg_pin_mode_unchecked(m, pin_node, status) ==
    LET pad_offset == ofnode_read_s32_default(pin_node, "pad-offset", -1)
        mode == ofnode_read_s32_default(pin_node, "mode-func", -1)
        mask == MRFLD_PINMODE_MASK
        is_protected == ofnode_read_bool(pin_node, "protected")
    IN  IF pad_offset = -1 THEN [ret |-> -EINVAL, mem |-> m, acc |-> << >>]
        ELSE IF is_protected
             THEN mrfld_pinconfig_protected(m, pad_offset, mask, And32(mode, mask), status)
             ELSE mrfld_pinconfig(m, pad_offset, mask, And32(mode, mask))

mrfld_pinctrl_cfg_pin(m, pin_node, status) ==
    LET pad_offset == ofnode_read_s32_default(pin_node, "pad-offset", -1)
        mode == ofnode_read_s32_default(pin_node, "mode-func", -1)
        mask == MRFLD_PINMODE_MASK
        is_protected == ofnode_read_bool(pin_node, "protected")
    IN  IF pad_offset = -1 THEN [ret |-> -EINVAL, mem |-> m, acc |-> << >>]
        ELSE IF mode = -1 THEN [ret |-> -EINVAL, mem |-> m, acc |-> << >>]
        ELSE IF And32(mode, Not32(mask)) # 0
             THEN [ret |-> -ENOTSUPP, mem |-> m, acc |-> << >>]
        ELSE IF is_protected
             THEN mrfld_pinconfig_protected(m, pad_offset, mask, mode, status)
             ELSE mrfld_pinconfig(m, pad_offset, mask, mode)

----------------------------------------------------------------------------
(* Inputs *)

\* register contents before the probe: 0, 0xFFFFFFFF, 0x12345678, 0xAAAAAAAA,
\* 0x80000007, 0x7FFFFFF8, dealt to the registers in turn from a starting point
InitVals == << 0, -1, 305419896, -1431655766, -2147483641, 2147483640 >>

\* the hardware the driver may find: the region's address (0xFF0C0000 on
\* Tangier, and a low one) and the starting point of the registers' contents
Hardware == { << -15990784, 0 >>, << 65536, 3 >> }

\* offsets of the buffer-configuration registers inside the region
RegOffsets ==
    UNION { { mrfld_families_init[i].family_number * MRFLD_FAMILY_LEN + BUFCFG_OFFSET + 4 * k :
                k \in 0..(mrfld_families_init[i].npins - 1) } :
            i \in DOMAIN mrfld_families_init }

InitMem(r, s) ==
    [a \in { r + o : o \in RegOffsets } |->
        InitVals[(((a - r) \div 4 + s) % Len(InitVals)) + 1]]

Prop(name, o) == IF o = << >> THEN << >> ELSE (name :> o[1])

MakeNode(p, m, prot) ==
    Prop("pad-offset", p) @@ Prop("mode-func", m)
        @@ (IF prot THEN ("protected" :> TRUE) ELSE << >>)

\* subnodes of the lists: each property absent (<< >>) or present with a value
ListPads == { << >>, <<37>>, <<92>>, <<101>> }
ListModes == { << >>, <<2>>, <<5>>, <<8>> }
ListNodes == { MakeNode(p, m, prot) : p \in ListPads, m \in ListModes, prot \in BOOLEAN }

\* subnodes of the one-subnode device trees: every pin number with a valid mode,
\* and every mode value around the valid ones with a pin number, -1 included
PinNodes == { MakeNode(<<p>>, <<5>>, prot) : p \in 0..MaxPin, prot \in BOOLEAN }
ModeNodes ==
    { MakeNode(<<p>>, <<m>>, prot) : p \in {-1, 37}, m \in (-MaxMode)..MaxMode, prot \in BOOLEAN }

DeviceTrees ==
    UNION { [1..n -> ListNodes] : n \in 0..MaxNodes }
        \cup { <<nd>> : nd \in PinNodes \cup ModeNodes }

\* the device trees of the runs that are followed to their end: lists of a
\* subnode that is applied and one of each kind of failure (no family, no
\* pad-offset, unsupported mode, channel error possible)
LiveNodes ==
    { MakeNode(<<37>>, <<5>>, FALSE),
      MakeNode(<<92>>, <<5>>, FALSE), MakeNode(<< >>, <<5>>, FALSE),
      MakeNode(<<37>>, <<8>>, FALSE), MakeNode(<<37>>, <<5>>, TRUE) }
LiveTrees == UNION { [1..n -> LiveNodes] : n \in 0..MaxNodes }

\* results the SCU channel can give
ScuStatus == { 0, -EIO }

----------------------------------------------------------------------------
(* The state machine *)

\* the state before the probe, for a device tree of the set trees
InitWith(trees) ==
    /\ \E h \in Hardware : region = h[1] /\ seed = h[2]
    /\ mem = InitMem(region, seed)
    /\ mrfld_families = mrfld_families_init
    /\ pinctrl = [families |-> << >>, nfamilies |-> 0]
    /\ dt \in trees
    /\ idx = 0
    /\ pc = "probe"
    /\ results = << >>
    /\ hw = << >>
    /\ probe_ret = << >>

Init == InitWith(DeviceTrees)

LiveInit == InitWith(LiveTrees)

\* tangier_pinctrl_probe up to its loop: set the families up, fill pinctrl in
ProbeSetup ==
    /\ pc = "probe"
    /\ LET base_addr == syscon_get_first_range
           fams == mrfld_setup_families(base_addr, mrfld_families)
       IN  /\ mrfld_families' = fams
           /\ pinctrl' = [families |-> fams, nfamilies |-> Len(fams)]
    /\ pc' = "subnodes"
    /\ UNCHANGED <<region, mem, seed, dt, idx, results, hw, probe_ret>>

\* the bug of giving the pass up, and returning the error, when a subnode fails
CfgPin_stop_on_error ==
    /\ pc = "subnodes"
    /\ idx < Len(dt)
    /\ \E status \in ScuStatus :
         LET r == mrfld_pinctrl_cfg_pin(mem, dt[idx + 1], status) IN
         /\ mem' = r.mem
         /\ results' = Append(results, r.ret)
         /\ hw' = hw \o [k \in DOMAIN r.acc |-> [node |-> idx + 1] @@ r.acc[k]]
         /\ IF r.ret # 0
            THEN pc' = "done" /\ probe_ret' = <<r.ret>>
            ELSE UNCHANGED <<pc, probe_ret>>
    /\ idx' = idx + 1
    /\ UNCHANGED <<region, seed, mrfld_families, pinctrl, dt>>

\* one iteration of ofnode_for_each_subnode: configure the next subnode's pin;
\* a failure is logged and the loop goes on
CfgPin ==
    /\ pc = "subnodes"
    /\ idx < Len(dt)
    /\ \E status \in ScuStatus :
         LET r == mrfld_pinctrl_cfg_pin(mem, dt[idx + 1], status) IN
         /\ mem' = r.mem
         /\ results' = Append(results, r.ret)
         /\ hw' = hw \o [k \in DOMAIN r.acc |-> [node |-> idx + 1] @@ r.acc[k]]
    /\ idx' = idx + 1
    /\ UNCHANGED <<region, seed, mrfld_families, pinctrl, dt, pc, probe_ret>>

\* no subnode is left: the probe returns 0
ProbeReturn ==
    /\ pc = "subnodes"
    /\ idx >= Len(dt)
    /\ pc' = "done"
    /\ probe_ret' = <<0>>
    /\ UNCHANGED <<region, mem, seed, mrfld_families, pinctrl, dt, idx, results, hw>>

Next == ProbeSetup \/ CfgPin \/ ProbeReturn

Spec == Init /\ [][Next]_vars

\* the probe runs synchronously on one thread: a step that can be taken is taken
LiveSpec == LiveInit /\ [][Next]_vars /\ WF_vars(Next)

----------------------------------------------------------------------------
(* Vocabulary of the properties *)

Visited == 1..idx
HasPad(nd) == "pad-offset" \in DOMAIN nd
HasMode(nd) == "mode-func" \in DOMAIN nd
IsProtected(nd) == "protected" \in DOMAIN nd
PadOf(nd) == nd["pad-offset"]
ModeOf(nd) == nd["mode-func"]

\* the accesses made for subnode i, in order
AccOf(i) == SelectSeq(hw, LAMBDA r : r.node = i)
Writes == { k \in DOMAIN hw : hw[k].op \in {"writel", "scu_ipc"} }

\* the families of the table whose pin range contains p
Owners(p) ==
    { k \in 1..pinctrl.nfamilies :
        /\ p >= pinctrl.families[k].pin_base
        /\ p < pinctrl.families[k].pin_base + pinctrl.families[k].npins }
Resolvable(nd) == HasPad(nd) /\ Owners(PadOf(nd)) # {}
ValidMode(nd) == HasMode(nd) /\ ModeOf(nd) \in 0..7
Actionable(nd) == ValidMode(nd) /\ Resolvable(nd)

\* the address section 4.1 and 4.3 of the specification give pin p of family number n
\* whose first pin is b
RegisterAddress(n, b, p) == region + n * 1024 + 256 + (p - b) * 4
AddressOf(p) ==
    LET f == pinctrl.families[CHOOSE k \in Owners(p) : TRUE]
    IN  RegisterAddress(f.family_number, f.pin_base, p)

\* the value with the low three bits of v replaced by m
WithMode(v, m) == (v \div 8) * 8 + m

TypeOK ==
    /\ pc \in {"probe", "subnodes", "done"}
    /\ idx \in 0..Len(dt)
    /\ Len(results) = idx

----------------------------------------------------------------------------
\* C1: a successful configuration of a pin with mode m, whose register held v,
\* writes (v & ~0b111) | m (by a direct store or as the value of the indirect
\* write), and the register then reads back with low 3 bits m and bits 3..31
\* those of v.
C1_ReadModifyWrite ==
    [][ (idx' = idx + 1 /\ results'[idx'] = 0) =>
          LET nd == dt[idx']
              a == AddressOf(PadOf(nd))
              v == mem[a]
              m == ModeOf(nd)
              w == hw'[Len(hw')]
          IN  /\ m \in 0..7
              /\ w.op \in {"writel", "scu_ipc"} /\ w.node = idx' /\ w.addr = a
              /\ w.val = WithMode(v, m)
              /\ mem'[a] % 8 = m
              /\ mem'[a] \div 8 = v \div 8 ]_vars

\* a direct configuration has changed a register that held 0xFFFFFFFF or
\* 0x80000007 (bit 31 and all mode bits set)
C1_Witness ==
    /\ idx >= 1 /\ results[idx] = 0
    /\ hw # << >> /\ hw[Len(hw)].op = "writel"
    /\ hw[Len(hw) - 1].ret < 0
    /\ mem[hw[Len(hw)].addr] # hw[Len(hw) - 1].ret

\* C2: the two write paths exclude each other. A valid, resolvable subnode with
\* "protected" makes no direct store and exactly one indirect-write request,
\* which carries the pin's register address and the new value, and the
\* subnode's result is the channel's; one without "protected" makes exactly one
\* direct store of the new value to the pin's register address and no request.
C2_WritePaths ==
    \A i \in Visited :
        Actionable(dt[i]) =>
            LET acc == AccOf(i)
                a == AddressOf(PadOf(dt[i]))
                stores == { k \in DOMAIN acc : acc[k].op = "writel" }
                requests == { k \in DOMAIN acc : acc[k].op = "scu_ipc" }
                reads == { k \in DOMAIN acc : acc[k].op = "readl" }
                new_value == WithMode(acc[1].ret, ModeOf(dt[i]))
            IN  /\ reads = {1} /\ acc[1].addr = a
                /\ IF IsProtected(dt[i])
                   THEN /\ stores = {}
                        /\ requests = {2}
                        /\ acc[2].addr = a /\ acc[2].val = new_value
                        /\ results[i] = acc[2].ret
                   ELSE /\ requests = {}
                        /\ stores = {2}
                        /\ acc[2].addr = a /\ acc[2].val = new_value
                        /\ results[i] = 0

\* a protected subnode whose request the channel refused came after a direct one
C2_Witness ==
    /\ idx = 2
    /\ Actionable(dt[1]) /\ ~IsProtected(dt[1]) /\ results[1] = 0
    /\ Actionable(dt[2]) /\ IsProtected(dt[2]) /\ results[2] = -EIO
    /\ Len(hw) = 4 /\ hw[4].op = "scu_ipc" /\ hw[2].op = "writel"

\* C3 as stated: pins 37..92 are family A at region + 3*1024 and pins 101..114
\* family B at region + 7*1024, so that configuring any pin of 37..92
\* unprotected with a valid mode succeeds and updates the register at
\* region + 3*1024 + 0x100 + (pin - 37)*4.
C3_AsStated ==
    \A i \in Visited :
        HasPad(dt[i]) =>
            LET p == PadOf(dt[i]) IN
            /\ p \in 37..92 =>
                 /\ mrfld_get_family(pinctrl, p) = 1
                 /\ pinctrl.families[1].regs = region + 3 * 1024
            /\ p \in 101..114 =>
                 /\ mrfld_get_family(pinctrl, p) = 2
                 /\ pinctrl.families[2].regs = region + 7 * 1024
            /\ (p \in 37..92 /\ ValidMode(dt[i]) /\ ~IsProtected(dt[i])) =>
                 /\ results[i] = 0
                 /\ \E k \in DOMAIN hw :
                      /\ hw[k].node = i /\ hw[k].op = "writel"
                      /\ hw[k].addr = region + 3 * 1024 + 256 + (p - 37) * 4

\* C3: the same with family A ending at pin 56, as the table has it; the pins
\* 57..92 belong to no family.
C3_FamilyTable ==
    \A i \in Visited :
        HasPad(dt[i]) =>
            LET p == PadOf(dt[i]) IN
            /\ p \in 37..56 =>
                 /\ mrfld_get_family(pinctrl, p) = 1
                 /\ pinctrl.families[1].regs = region + 3 * 1024
            /\ p \in 57..92 => mrfld_get_family(pinctrl, p) = NULL
            /\ p \in 101..114 =>
                 /\ mrfld_get_family(pinctrl, p) = 2
                 /\ pinctrl.families[2].regs = region + 7 * 1024
            /\ (p \in 37..56 /\ ValidMode(dt[i]) /\ ~IsProtected(dt[i])) =>
                 /\ results[i] = 0
                 /\ \E k \in DOMAIN hw :
                      /\ hw[k].node = i /\ hw[k].op = "writel"
                      /\ hw[k].addr = region + 3 * 1024 + 256 + (p - 37) * 4

\* pin 56, the last of family A, has been configured by a direct store
C3_Witness ==
    /\ idx = 1 /\ HasPad(dt[1]) /\ PadOf(dt[1]) = 56 /\ ~IsProtected(dt[1])
    /\ results[1] = 0
    /\ hw[2].op = "writel" /\ hw[2].addr = region + 3 * 1024 + 256 + 19 * 4

\* C4: every pin p with pin_base <= p < pin_base + pin_count of a family of the
\* table resolves to that family; the pin one below pin_base, the pin
\* pin_base + pin_count and every pin in no family's range resolve to nothing,
\* and configuring such a pin fails with no hardware access, while the other
\* subnodes, before and after it, are configured as if it were not there.
C4_Resolve ==
    \A i \in Visited :
        HasPad(dt[i]) =>
            LET p == PadOf(dt[i])
                fams == pinctrl.families
            IN
            /\ \A k \in DOMAIN fams :
                 /\ (fams[k].pin_base <= p /\ p < fams[k].pin_base + fams[k].npins) =>
                        mrfld_get_family(pinctrl, p) = k
                 /\ (p = fams[k].pin_base - 1 \/ p = fams[k].pin_base + fams[k].npins) =>
                        mrfld_get_family(pinctrl, p) = NULL
            /\ Owners(p) = {} => mrfld_get_family(pinctrl, p) = NULL
            /\ (ValidMode(dt[i]) /\ ~Resolvable(dt[i])) =>
                    results[i] = -EINVAL /\ AccOf(i) = << >>
            /\ (Actionable(dt[i]) /\ ~IsProtected(dt[i])) =>
                    results[i] = 0 /\ Len(AccOf(i)) = 2

\* the pin one below family B was refused without an access; and, in another
\* run, pin 92, which no family has, was refused and the subnode after it applied
C4_Witness ==
    \/ /\ idx = 1 /\ HasPad(dt[1]) /\ PadOf(dt[1]) = 100 /\ ValidMode(dt[1])
       /\ results[1] = -EINVAL /\ hw = << >>
       /\ pinctrl.families[2].pin_base = 101
    \/ /\ idx = 2
       /\ HasPad(dt[1]) /\ PadOf(dt[1]) = 92 /\ ValidMode(dt[1]) /\ results[1] = -EINVAL
       /\ Actionable(dt[2]) /\ results[2] = 0 /\ Len(hw) = 2 /\ hw[2].node = 2

\* C5: the register read and written for pin p of a family is at
\* region + family_number*1024 + 0x100 + (p - pin_base)*4: the family's first pin
\* is at the family's base address + 0x100 and each next pin exactly 4 higher.
C5_RegisterAddress ==
    /\ \A k \in DOMAIN pinctrl.families :
         LET f == pinctrl.families[k] IN
         /\ f.regs = region + f.family_number * 1024
         /\ mrfld_get_bufcfg(pinctrl, f.pin_base) = f.regs + 256
         /\ mrfld_get_bufcfg(pinctrl, f.pin_base + 1) = f.regs + 256 + 4
    /\ \A i \in Visited :
         Resolvable(dt[i]) =>
            LET p == PadOf(dt[i])
                f == pinctrl.families[CHOOSE k \in Owners(p) : TRUE]
            IN  /\ f.regs = region + f.family_number * 1024
                /\ mrfld_get_bufcfg(pinctrl, p) = AddressOf(p)
                /\ p = f.pin_base => mrfld_get_bufcfg(pinctrl, p) = f.regs + 256
                /\ p + 1 < f.pin_base + f.npins =>
                     mrfld_get_bufcfg(pinctrl, p + 1) = mrfld_get_bufcfg(pinctrl, p) + 4
    /\ \A k \in DOMAIN hw :
         LET nd == dt[hw[k].node] IN
         /\ Resolvable(nd)
         /\ hw[k].addr = AddressOf(PadOf(nd))

\* the last pin of family B (number 7, pins 101..114) has been read and written
C5_Witness ==
    /\ idx = 1 /\ HasPad(dt[1]) /\ PadOf(dt[1]) = 114
    /\ Len(hw) = 2
    /\ hw[1].op = "readl" /\ hw[1].addr = region + 7 * 1024 + 256 + 13 * 4
    /\ hw[2].addr = hw[1].addr

\* the pins that have a register
FamilyPins ==
    UNION { pinctrl.families[k].pin_base
              ..(pinctrl.families[k].pin_base + pinctrl.families[k].npins - 1) :
            k \in DOMAIN pinctrl.families }
PinOfWrite(k) == PadOf(dt[hw[k].node])

\* C9 as stated: distinct pins have distinct register addresses, and no two
\* writes of one pass go to the same location.
C9_AsStated ==
    /\ idx = 0 =>
         Cardinality({ mrfld_get_bufcfg(pinctrl, p) : p \in FamilyPins })
            = Cardinality(FamilyPins)
    /\ \A j, k \in Writes : j # k => hw[j].addr # hw[k].addr

\* C9: distinct pins have distinct register addresses, and two writes of one
\* pass go to the same location only when they are for the same pin.
C9_DisjointRegisters ==
    /\ idx = 0 =>
         Cardinality({ mrfld_get_bufcfg(pinctrl, p) : p \in FamilyPins })
            = Cardinality(FamilyPins)
    /\ \A j, k \in Writes :
         (hw[j].addr = hw[k].addr) <=> (PinOfWrite(j) = PinOfWrite(k))

\* one pass has written for two different pins
C9_Witness ==
    /\ Cardinality(Writes) = 2
    /\ \E j, k \in Writes : j < k /\ PinOfWrite(j) # PinOfWrite(k)
    /\ Cardinality(FamilyPins) = 34

\* C6 as stated: a subnode that has "pad-offset" and "mode-func", the latter
\* with a bit set outside 0b111 (8, or any negative value), ends as
\* UnsupportedMode with no register read, no direct store and no channel request.
C6_AsStated ==
    \A i \in Visited :
        (HasPad(dt[i]) /\ HasMode(dt[i]) /\ ModeOf(dt[i]) \notin 0..7) =>
            /\ results[i] = -ENOTSUPP
            /\ AccOf(i) = << >>

\* C7: a subnode without "pad-offset", or without "mode-func", ends as
\* InvalidConfig whatever else it has, and the hardware is not touched: no
\* register is read or written and no channel request is made.
C7_MissingField ==
    [][ (idx' = idx + 1 /\ (~HasPad(dt[idx']) \/ ~HasMode(dt[idx']))) =>
          /\ results'[idx'] = -EINVAL
          /\ mem' = mem
          /\ hw' = hw ]_vars

\* after a subnode that wrote, a protected subnode with a mode but no pad-offset
\* was refused
C7_Witness ==
    /\ idx = 2 /\ results[1] = 0 /\ Len(hw) = 2
    /\ ~HasPad(dt[2]) /\ HasMode(dt[2]) /\ IsProtected(dt[2])
    /\ results[2] = -EINVAL

\* what a pass has done so far, subnode by subnode
C8_Attempts ==
    /\ Len(results) = idx
    /\ \A j, k \in DOMAIN hw : j < k => hw[j].node <= hw[k].node
    /\ \A k \in DOMAIN hw : hw[k].node \in Visited
    /\ \A i \in Visited :
         /\ ~Actionable(dt[i]) => results[i] # 0 /\ AccOf(i) = << >>
         /\ Actionable(dt[i]) => Len(AccOf(i)) = 2
         /\ (Actionable(dt[i]) /\ ~IsProtected(dt[i])) => results[i] = 0
         /\ (Actionable(dt[i]) /\ IsProtected(dt[i])) => results[i] \in ScuStatus

\* C8: the pass is best-effort: every subnode is attempted exactly once, in
\* source order; a subnode that fails (no family, a missing field, an
\* unsupported mode, a channel error) does not keep a later one from being
\* attempted and applied; and the pass always comes to its end and reports
\* success, however many subnodes failed.
C8_BestEffort ==
    /\ []C8_Attempts
    /\ [][ /\ idx' \in {idx, idx + 1}
           /\ idx' = idx + 1 =>
                /\ SubSeq(results', 1, idx) = results
                /\ SubSeq(hw', 1, Len(hw)) = hw
                /\ \A k \in (Len(hw) + 1)..Len(hw') : hw'[k].node = idx' ]_vars
    /\ [](pc = "done" => idx = Len(dt) /\ probe_ret = <<0>>)
    /\ <>(pc = "done")

\* the pass is over: its first subnode failed and its second was applied
C8_Witness ==
    /\ pc = "done" /\ probe_ret = <<0>> /\ Len(dt) = 2
    /\ results[1] # 0 /\ results[2] = 0
    /\ Len(hw) = 2 /\ hw[2].node = 2 /\ hw[2].op = "writel"

\* the registers as they are now against the registers as they were
C10_Frame ==
    LET before == InitMem(region, seed)
        entries == { i \in Visited : Actionable(dt[i]) }
        configured == { AddressOf(PadOf(dt[i])) : i \in entries }
    IN  /\ \A a \in DOMAIN mem :
             /\ a \notin configured => mem[a] = before[a]
             /\ mem[a] \div 8 = before[a] \div 8
        /\ \A i \in entries :
             (/\ \A j \in entries : PadOf(dt[j]) = PadOf(dt[i]) => ~IsProtected(dt[j])
              /\ \A j \in entries : PadOf(dt[j]) = PadOf(dt[i]) => j <= i) =>
                 mem[AddressOf(PadOf(dt[i]))] % 8 = ModeOf(dt[i])

\* C10: after any subnodes on the direct path, a register that is not the
\* register of a pin named by a valid, resolvable subnode holds its initial
\* value, bits 3..31 of every register are the initial ones, the low 3 bits of
\* a configured register are the mode of the last successful subnode for its
\* pin, and one subnode changes at most one register.
C10_FrameOverPasses ==
    /\ []C10_Frame
    /\ [][ Cardinality({ a \in DOMAIN mem : mem'[a] # mem[a] }) <= 1 ]_vars

\* pin 37 was configured twice on the direct path, with two different modes, and
\* its register has changed
C10_Witness ==
    /\ idx = 2 /\ Actionable(dt[1]) /\ Actionable(dt[2])
    /\ ~IsProtected(dt[1]) /\ ~IsProtected(dt[2])
    /\ PadOf(dt[1]) = PadOf(dt[2]) /\ ModeOf(dt[1]) # ModeOf(dt[2])
    /\ mem[hw[4].addr] % 8 = ModeOf(dt[2])
    /\ mem[hw[4].addr] # InitMem(region, seed)[hw[4].addr]

====
